---- MODULE Spec2Model ----
(***************************************************************************)
(* A model of the gobbs/neonmodem Discourse adapter and its HTTP client:   *)
(*   - api.Client.Do on top of retryablehttp (src/unnamed/part_000),       *)
(*   - discourse.System.Load / ListPosts / LoadPost / CreatePost /         *)
(*     CreateReply and lemmy.System.Load                                   *)
(*     (src/system/discourse/discourse.go).                                *)
(* Each component has its own specification (SpecDo, SpecLoad, SpecList,   *)
(* SpecLoadPost, SpecCreate) over one shared tuple of variables; the       *)
(* variables of the other components stay at their initial values.         *)
(***************************************************************************)
EXTENDS Integers, Sequences, FiniteSets, TLC

VARIABLES
    \* ---- Client.Do ----
    doPc,            \* "idle" | "running" (inside httpClient.Do) | "returned"
    respLog,         \* outcome of every HTTP attempt of the current call
    content,         \* the destination *Response (NilContent when nil)
    contentBefore,   \* the destination as the caller passed it
    lastBody,        \* body of the response httpClient.Do handed to Do
    result,          \* what Do returned
    errResponse,     \* RequestError.Response when result = "RequestError"
    ctx,             \* the context of the call: "caller" or "background"
    cancelRequested, \* the caller asked for the operation to be cancelled
    contentAtCancel, \* the destination when the caller asked for it
    \* ---- System.Load (discourse and lemmy) ----
    adapter, config, client, netCalls, lastLoad, loads,
    \* ---- System.ListPosts ----
    cats, items, lsResult, models,
    \* ---- System.LoadPost ----
    p, lpResult, lastStream, lpCalls,
    \* ---- System.CreatePost / System.CreateReply ----
    r, np, crInput, lastReq, crResult, crOp

doVars == <<doPc, respLog, content, contentBefore, lastBody, result,
            errResponse, ctx, cancelRequested, contentAtCancel>>
loadVars == <<adapter, config, client, netCalls, lastLoad, loads>>
listVars == <<cats, items, lsResult, models>>
lpVars == <<p, lpResult, lastStream, lpCalls>>
crVars == <<r, np, crInput, lastReq, crResult, crOp>>
vars == <<doVars, loadVars, listVars, lpVars, crVars>>

(***************************************************************************)
(* Strings are sequences of characters, so that strconv.Atoi and           *)
(* strconv.Itoa are real conversions.                                      *)
(***************************************************************************)
MaxStrLen == 2

Digits == {"0", "1", "2", "3", "4", "5", "6", "7", "8", "9"}
\* The alphabet of the strings a caller passes in.
Chars == {"1", "5", "7", "-", "+", "a"}

DigitVal(c) ==
    CASE c = "0" -> 0 [] c = "1" -> 1 [] c = "2" -> 2 [] c = "3" -> 3
      [] c = "4" -> 4 [] c = "5" -> 5 [] c = "6" -> 6 [] c = "7" -> 7
      [] c = "8" -> 8 [] c = "9" -> 9

DigitChar(d) ==
    CASE d = 0 -> "0" [] d = 1 -> "1" [] d = 2 -> "2" [] d = 3 -> "3"
      [] d = 4 -> "4" [] d = 5 -> "5" [] d = 6 -> "6" [] d = 7 -> "7"
      [] d = 8 -> "8" [] d = 9 -> "9"

Strings == UNION {[1..n -> Chars] : n \in 0..MaxStrLen}

RECURSIVE DigitsVal(_)
DigitsVal(s) ==
    IF Len(s) = 0 THEN 0
    ELSE 10 * DigitsVal(SubSeq(s, 1, Len(s) - 1)) + DigitVal(s[Len(s)])

AllDigits(s) == Len(s) > 0 /\ \A k \in 1..Len(s) : s[k] \in Digits

\* strconv.Atoi: an optional sign, then one or more decimal digits.
Atoi(s) ==
    IF Len(s) > 0 /\ s[1] \in {"-", "+"}
    THEN IF AllDigits(Tail(s))
         THEN [err |-> FALSE,
               val |-> IF s[1] = "-" THEN 0 - DigitsVal(Tail(s)) ELSE DigitsVal(Tail(s))]
         ELSE [err |-> TRUE, val |-> 0]
    ELSE IF AllDigits(s)
         THEN [err |-> FALSE, val |-> DigitsVal(s)]
         ELSE [err |-> TRUE, val |-> 0]

RECURSIVE NatItoa(_)
NatItoa(n) ==
    IF n < 10 THEN <<DigitChar(n)>>
    ELSE Append(NatItoa(n \div 10), DigitChar(n % 10))

\* strconv.Itoa
Itoa(n) == IF n < 0 THEN <<"-">> \o NatItoa(0 - n) ELSE NatItoa(n)

(***************************************************************************)
(*                              Client.Do                                  *)
(***************************************************************************)
StatusOK == 200
StatusNoContent == 204

\* c.httpClient.RetryMax = 3: the number of retries after the first attempt.
RetryMax == 3

Statuses == {199, StatusOK, StatusNoContent, 205, 404, 429, 500, 501}

\* The Response envelope; Type and Message stand for all of its fields.
Fields == {"type", "message"}
ZeroResponse == [f \in Fields |-> ""]
OldResponse == [f \in Fields |-> "old"]
NilContent == [nil |-> TRUE]
NoResponse == [none |-> TRUE]
NoBody == [nobody |-> TRUE]

\* A response body: not JSON at all, or a JSON object giving some of the
\* fields, each as a string ("v") or as a number (a type the field rejects).
Garbage == [garbage |-> TRUE]
JSONString == "v"
JSONNumber == "#5"
JSONValues == {JSONString, JSONNumber}
Bodies == {Garbage} \cup UNION {[fs -> JSONValues] : fs \in SUBSET Fields}

ContentInputs == {NilContent, ZeroResponse, OldResponse}

\* json.Unmarshal(body, content): a syntax error leaves content alone; a
\* field of the wrong type is skipped and reported; absent fields keep
\* what content held.
Unmarshal(body, c) ==
    IF body = Garbage THEN [err |-> TRUE, c |-> c]
    ELSE [err |-> \E f \in DOMAIN body : body[f] = JSONNumber,
          c |-> [f \in Fields |->
                    IF f \in DOMAIN body /\ body[f] # JSONNumber THEN body[f] ELSE c[f]]]

Success(status) == ~(status < StatusOK \/ status > StatusNoContent)

\* What one HTTP attempt yields: an error (status 0), or a response.
TransientErr == [err |-> "transient", status |-> 0]
PermanentErr == [err |-> "permanent", status |-> 0]
Resp(status) == [err |-> "none", status |-> status]
IsResp(o) == o.err = "none"
Outcomes == {TransientErr, PermanentErr} \cup {Resp(s) : s \in Statuses}

\* A client call made directly runs under the context its caller passes. The
\* domain operations (ListPosts, LoadPost, CreatePost, CreateReply) take no
\* context: they hand context.Background() to the service handlers.
CallerCtx == "caller"
BackgroundCtx == "background"
Contexts == {CallerCtx, BackgroundCtx}

\* ctx.Err() # nil: context.Background() is never cancelled.
CtxDone(c, cancelAsked) == c # BackgroundCtx /\ cancelAsked
CtxErr == CtxDone(ctx, cancelRequested)

RetryableStatusMutant(status) == status >= 400

\* retryablehttp.DefaultRetryPolicy on a response
RetryableStatus(status) ==
    \/ status = 429
    \/ status = 0
    \/ (status >= 500 /\ status # 501)

RemainMutant(i) == RetryMax - i - 1

\* remain := c.RetryMax - i, with i the index of the attempt just made (from 0)
Remain(i) == RetryMax - i

CheckRetryMutant(ctxErr, o) ==
    IF o = TransientErr THEN [retry |-> TRUE, err |-> "none"]
    ELSE IF o = PermanentErr THEN [retry |-> FALSE, err |-> "transportErr"]
    ELSE [retry |-> RetryableStatus(o.status), err |-> "none"]

\* retryablehttp's CheckRetry (DefaultRetryPolicy): a cancelled context ends
\* the call with the context's error; transport errors are retried unless
\* permanent (redirect loop, bad scheme, certificate); so are 429 and 5xx.
CheckRetry(ctxErr, o) ==
    IF ctxErr THEN [retry |-> FALSE, err |-> "ctxErr"]
    ELSE IF o = TransientErr THEN [retry |-> TRUE, err |-> "none"]
    ELSE IF o = PermanentErr THEN [retry |-> FALSE, err |-> "transportErr"]
    ELSE [retry |-> RetryableStatus(o.status), err |-> "none"]

DoFinishMutant(status, body, readOK, c) ==
    IF ~readOK THEN [result |-> "readErr", content |-> c, errResponse |-> NoResponse]
    ELSE IF ~Success(status)
    THEN IF c = NilContent
         THEN [result |-> "panic", content |-> c, errResponse |-> NoResponse]
         ELSE [result |-> "RequestError", content |-> c, errResponse |-> c]
    ELSE IF c # NilContent /\ Unmarshal(body, c).err
    THEN [result |-> "decodeErr", content |-> Unmarshal(body, c).c,
          errResponse |-> NoResponse]
    ELSE [result |-> "nil",
          content |-> IF c = NilContent THEN c ELSE Unmarshal(body, c).c,
          errResponse |-> NoResponse]

\* Do after httpClient.Do handed it a response: read the body, decode it
\* into content when content is not nil, then look at the status code.
DoFinish(status, body, readOK, c) ==
    IF ~readOK THEN [result |-> "readErr", content |-> c, errResponse |-> NoResponse]
    ELSE LET u == IF c = NilContent THEN [err |-> FALSE, c |-> c]
                  ELSE Unmarshal(body, c)
         IN IF u.err
            THEN [result |-> "decodeErr", content |-> u.c, errResponse |-> NoResponse]
            ELSE IF ~Success(status)
            THEN IF u.c = NilContent
                 \* *content with content == nil: nil pointer dereference
                 THEN [result |-> "panic", content |-> u.c, errResponse |-> NoResponse]
                 ELSE [result |-> "RequestError", content |-> u.c, errResponse |-> u.c]
            ELSE [result |-> "nil", content |-> u.c, errResponse |-> NoResponse]

InitDo ==
    /\ doPc = "idle"
    /\ respLog = <<>>
    /\ content = NilContent
    /\ contentBefore = NilContent
    /\ lastBody = NoBody
    /\ result = "none"
    /\ errResponse = NoResponse
    /\ ctx = CallerCtx
    /\ cancelRequested = FALSE
    /\ contentAtCancel = NilContent

\* Do is called: retryablehttp.FromRequest, then rreq.WithContext(ctx).
DoCall ==
    /\ doPc \in {"idle", "returned"}
    /\ \E c \in ContentInputs, cx \in Contexts, fromRequestOK \in BOOLEAN :
        /\ content' = c
        /\ contentBefore' = c
        /\ contentAtCancel' = c
        /\ ctx' = cx
        /\ doPc' = IF fromRequestOK THEN "running" ELSE "returned"
        /\ result' = IF fromRequestOK THEN "none" ELSE "fromRequestErr"
    /\ respLog' = <<>>
    /\ lastBody' = NoBody
    /\ errResponse' = NoResponse
    /\ cancelRequested' = FALSE

\* The caller asks for cancellation while the call is in flight.
CancelCtx ==
    /\ doPc = "running"
    /\ ~cancelRequested
    /\ cancelRequested' = TRUE
    /\ contentAtCancel' = content
    /\ UNCHANGED <<doPc, respLog, content, contentBefore, lastBody, result, errResponse, ctx>>

\* One iteration of retryablehttp's loop inside c.httpClient.Do, and, when
\* the loop ends, the rest of Do.
HTTPAttempt ==
    /\ doPc = "running"
    /\ \E o \in Outcomes, body \in Bodies, readOK \in BOOLEAN :
        LET i == Len(respLog)
            check == CheckRetry(CtxErr, o)
            remain == Remain(i)
            fin == DoFinish(o.status, body, readOK, content)
        IN /\ respLog' = Append(respLog, o)
           /\ IF ~check.retry
              THEN IF check.err # "none" \/ ~IsResp(o)
                   THEN /\ doPc' = "returned"
                        /\ result' = check.err
                        /\ UNCHANGED <<content, lastBody, errResponse>>
                   ELSE /\ doPc' = "returned"
                        /\ result' = fin.result
                        /\ content' = fin.content
                        /\ errResponse' = fin.errResponse
                        /\ lastBody' = body
              ELSE IF remain <= 0
                   THEN /\ doPc' = "returned"
                        /\ result' = "giveUpErr"
                        /\ UNCHANGED <<content, lastBody, errResponse>>
                   ELSE /\ doPc' = "running"
                        /\ UNCHANGED <<result, content, lastBody, errResponse>>
    /\ UNCHANGED <<contentBefore, ctx, cancelRequested, contentAtCancel>>

\* The backoff wait between two attempts is interrupted by ctx.Done().
BackoffCancelled ==
    /\ doPc = "running"
    /\ Len(respLog) >= 1
    /\ CtxErr
    /\ doPc' = "returned"
    /\ result' = "ctxErr"
    /\ UNCHANGED <<respLog, content, contentBefore, lastBody, errResponse, ctx,
                   cancelRequested, contentAtCancel>>

Last(s) == s[Len(s)]
AllTransient(log) == \A k \in 1..Len(log) : log[k] = TransientErr
\* Do got a response from httpClient.Do and read its body.
ObtainedResponse ==
    /\ doPc = "returned"
    /\ lastBody # NoBody
    /\ result # "readErr"

\* C1: a response with a status outside [200, 204] and a body that decodes as
\* an envelope makes Do return a RequestError whose Response is the decoded
\* body, whether or not the caller supplied a destination envelope.
C1_NonSuccessGivesRequestError ==
    (ObtainedResponse /\ ~Success(Last(respLog).status)
        /\ ~Unmarshal(lastBody, ZeroResponse).err)
        => /\ result = "RequestError"
           /\ errResponse = Unmarshal(lastBody,
                  IF contentBefore = NilContent THEN ZeroResponse ELSE contentBefore).c

\* C2 as stated: a request whose every attempt fails with a transient failure
\* is attempted exactly 3 times, and the transport error comes after the 3rd
\* attempt, not before.
C2_ExactlyThreeAttempts ==
    /\ AllTransient(respLog) => Len(respLog) <= 3
    /\ (doPc = "returned" /\ Len(respLog) >= 1 /\ AllTransient(respLog) /\ ~cancelRequested)
            => (Len(respLog) = 3 /\ result = "giveUpErr")

\* C2 as amended: unless the context is cancelled, a request whose every
\* attempt fails with a transient failure is attempted exactly 4 times (the
\* first attempt and RetryMax = 3 retries), and the transport error comes
\* after the 4th attempt, not before.
C2_ExactlyFourAttempts ==
    /\ AllTransient(respLog) => Len(respLog) <= 4
    /\ (doPc = "returned" /\ Len(respLog) >= 1 /\ AllTransient(respLog) /\ ~cancelRequested)
            => (Len(respLog) = 4 /\ result = "giveUpErr")
    /\ (Len(respLog) < 4 /\ AllTransient(respLog) /\ ~cancelRequested /\ doPc # "idle"
            /\ result # "fromRequestErr")
            => (doPc = "running" /\ result = "none")

C2_Witness ==
    /\ doPc = "returned"
    /\ respLog = <<TransientErr, TransientErr, TransientErr, TransientErr>>
    /\ result = "giveUpErr"
    /\ ~cancelRequested

\* C3 as stated: a response with a status outside [200, 204] is never
\* followed by another attempt; the call ends with it.
C3_NoRetryAfterStatusFailure ==
    \A k \in 1..Len(respLog) :
        (IsResp(respLog[k]) /\ ~Success(respLog[k].status))
            => (k = Len(respLog) /\ doPc = "returned")

\* C3 as amended: a response with a status outside [200, 204] that is not of
\* a retryable class (429, or 500 and above other than 501) is never followed
\* by another attempt; the call ends with it.
C3_NoRetryAfterNonRetryableStatus ==
    \A k \in 1..Len(respLog) :
        (/\ IsResp(respLog[k])
         /\ ~Success(respLog[k].status)
         /\ respLog[k].status # 429
         /\ (respLog[k].status < 500 \/ respLog[k].status = 501))
            => (k = Len(respLog) /\ doPc = "returned")

C3_Witness ==
    /\ doPc = "returned"
    /\ respLog = <<Resp(404)>>
    /\ result = "RequestError"
    /\ errResponse = content

C9_EveryCallIsCancellable ==
    (doPc = "returned" /\ cancelRequested)
        => (result = "ctxErr" /\ content = contentAtCancel)

\* C9 as amended: a client call made with the caller's context returns the
\* context's cancellation error once that context is cancelled in flight,
\* and its destination is not modified afterwards; the calls the domain
\* operations make run under context.Background() and are never cancelled.
C9_ClientCallIsCancellable ==
    /\ (doPc = "returned" /\ cancelRequested /\ ctx = CallerCtx)
            => (result = "ctxErr" /\ content = contentAtCancel)
    /\ ctx = BackgroundCtx => result # "ctxErr"

C9_Witness ==
    /\ doPc = "returned"
    /\ cancelRequested
    /\ ctx = CallerCtx
    /\ respLog = <<TransientErr, TransientErr>>
    /\ content = ZeroResponse
    /\ result = "ctxErr"

(***************************************************************************)
(*                 System.Load (discourse and lemmy)                       *)
(***************************************************************************)
MaxLoads == 2

\* A configuration value is absent (nil), a string, or of another type.
AbsentVal == [t |-> "absent", v |-> ""]
UrlValues == {AbsentVal,
              [t |-> "string", v |-> "https://forum.example"],
              [t |-> "string", v |-> "%zz"],
              [t |-> "int", v |-> "42"]}
UrlParses(u) == u.v # "%zz"

CredKeys == {"key", "username"}
CredValues == {[t |-> "string", v |-> "secret"], [t |-> "int", v |-> "1"]}
CredMaps == UNION {[ks -> CredValues] : ks \in SUBSET CredKeys}
EmptyMap == [k \in {} |-> AbsentVal]
CredentialValues == {[t |-> "absent", m |-> EmptyMap], [t |-> "string", m |-> EmptyMap]}
                        \cup {[t |-> "map", m |-> m] : m \in CredMaps}

Configs == [url : UrlValues, credentials : CredentialValues]
NilConfig == [url |-> AbsentVal, credentials |-> [t |-> "absent", m |-> EmptyMap]]
NoClient == [nil |-> TRUE]

\* (sys.config["credentials"]).(map[string]interface{}) and v.(string)
CredentialsPanic(cfg) ==
    \/ cfg.credentials.t # "map"
    \/ \E k \in DOMAIN cfg.credentials.m : cfg.credentials.m[k].t # "string"

StringMap(cfg) == [k \in DOMAIN cfg.credentials.m |-> cfg.credentials.m[k].v]

LoadOutcome(res, cl, built, net) ==
    [result |-> res, client |-> cl, constructed |-> built, net |-> net]

DiscourseLoadMutant(cfg, cl) ==
    IF CredentialsPanic(cfg) THEN LoadOutcome("panic", cl, FALSE, 0)
    ELSE IF cfg.url.t = "absent" THEN LoadOutcome("nil", cl, FALSE, 0)
    ELSE IF cfg.url.t # "string" THEN LoadOutcome("panic", cl, FALSE, 0)
    ELSE LoadOutcome("nil",
             [endpoint |-> IF UrlParses(cfg.url) THEN cfg.url.v ELSE "nil",
              credentials |-> StringMap(cfg)], TRUE, 0)

\* discourse.System.Load
DiscourseLoad(cfg, cl) ==
    IF cfg.url.t = "absent" THEN LoadOutcome("nil", cl, FALSE, 0)
    ELSE IF CredentialsPanic(cfg) THEN LoadOutcome("panic", cl, FALSE, 0)
    ELSE IF cfg.url.t # "string" THEN LoadOutcome("panic", cl, FALSE, 0)
    ELSE LoadOutcome("nil",
             \* NewClient drops url.Parse's error: the endpoint is then nil
             [endpoint |-> IF UrlParses(cfg.url) THEN cfg.url.v ELSE "nil",
              credentials |-> StringMap(cfg)], TRUE, 0)

\* lemmy.System.Load; loginOK is what sys.client.Login answers.
LemmyLoad(cfg, cl, loginOK) ==
    IF cfg.url.t = "absent" THEN LoadOutcome("nil", cl, FALSE, 0)
    ELSE IF cfg.url.t # "string" THEN LoadOutcome("panic", cl, FALSE, 0)
    \* sys.client, err = lemmy.New(...): sys.client is assigned nil on error
    ELSE IF ~UrlParses(cfg.url) THEN LoadOutcome("newErr", NoClient, FALSE, 0)
    ELSE LET new == [endpoint |-> cfg.url.v, credentials |-> EmptyMap]
         IN IF CredentialsPanic(cfg) THEN LoadOutcome("panic", new, TRUE, 0)
            ELSE LoadOutcome(IF loginOK THEN "nil" ELSE "loginErr", new, TRUE, 1)

NoLoad == [config |-> NilConfig, result |-> "none", constructed |-> FALSE, net |-> 0]

InitLoad ==
    /\ adapter = "none"
    /\ config = NilConfig
    /\ client = NoClient
    /\ netCalls = 0
    /\ lastLoad = NoLoad
    /\ loads = 0

\* new(discourse.System) or new(lemmy.System)
NewSystem ==
    /\ adapter = "none"
    /\ \E a \in {"discourse", "lemmy"} : adapter' = a
    /\ UNCHANGED <<config, client, netCalls, lastLoad, loads>>

\* System.SetConfig
SetConfig ==
    /\ adapter # "none"
    /\ \E cfg \in Configs : config' = cfg
    /\ UNCHANGED <<adapter, client, netCalls, lastLoad, loads>>

\* System.Load of the adapter at hand
Load ==
    /\ adapter # "none"
    /\ loads < MaxLoads
    /\ \E loginOK \in BOOLEAN :
        LET out == IF adapter = "discourse" THEN DiscourseLoad(config, client)
                   ELSE LemmyLoad(config, client, loginOK)
        IN /\ client' = out.client
           /\ netCalls' = netCalls + out.net
           /\ lastLoad' = [config |-> config, result |-> out.result,
                           constructed |-> out.constructed, net |-> out.net]
    /\ loads' = loads + 1
    /\ UNCHANGED <<adapter, config>>

\* C5: a Load on a configuration without `url` returns no error, constructs
\* no client and performs no network activity, for either adapter and
\* whatever the `credentials` entry holds.
C5_LoadWithoutUrlIsNoOp ==
    (lastLoad.result # "none" /\ lastLoad.config.url.t = "absent")
        => /\ lastLoad.result = "nil"
           /\ ~lastLoad.constructed
           /\ lastLoad.net = 0

C5_Witness ==
    /\ lastLoad.result = "nil"
    /\ lastLoad.config.url.t = "absent"
    /\ lastLoad.config.credentials.t = "absent"
    /\ adapter = "lemmy"
    /\ client = NoClient
    /\ netCalls = 0
    /\ loads = MaxLoads

(***************************************************************************)
(*                          System.ListPosts                               *)
(***************************************************************************)
MaxCats == 2
MaxSubs == 2
MaxTopics == 2
MaxPosters == 2
MaxUsers == 2

SeqsUpTo(S, n) == UNION {[1..k -> S] : k \in 0..n}

EmptyString == <<>>
CatIDs == {1, 11}
SubIDs == {11, 12}
TopicCatIDs == {11, 99}
UserIDs == {1, 2}

\* Names are labels of the position in the response, so that every category,
\* subcategory and user is told apart from every other one.
CatName(k) == <<"c", DigitChar(k)>>
SubName(k, j) == <<"c", DigitChar(k), "s", DigitChar(j)>>
UserNameAt(k) == <<"u", DigitChar(k)>>

CatShapes == [ID : CatIDs, subs : SeqsUpTo(SubIDs, MaxSubs)]
Category(shape, k) ==
    [ID |-> shape.ID, Name |-> CatName(k),
     SubcategoryList |-> [j \in 1..Len(shape.subs) |->
                            [ID |-> shape.subs[j], Name |-> SubName(k, j)]]]
CategoryLists(maxCats) ==
    {[k \in 1..Len(sh) |-> Category(sh[k], k)] : sh \in SeqsUpTo(CatShapes, maxCats)}

Topics == [ID : {7}, CategoryID : TopicCatIDs, Posters : SeqsUpTo(UserIDs, MaxPosters)]
TopicLists(maxTopics) == SeqsUpTo(Topics, maxTopics)
UserLists(maxUsers) ==
    {[k \in 1..Len(ids) |-> [ID |-> ids[k], Name |-> UserNameAt(k)]] :
        ids \in SeqsUpTo(UserIDs, maxUsers)}

\* What Categories.List and Topics.ListLatest answer: an error or a payload.
CatsOutcomes(maxCats) ==
    {[err |-> TRUE, list |-> <<>>]} \cup
    {[err |-> FALSE, list |-> l] : l \in CategoryLists(maxCats)}
ItemsOutcomes(maxTopics, maxUsers) ==
    {[err |-> TRUE, topics |-> <<>>, users |-> <<>>]} \cup
    {[err |-> FALSE, topics |-> t, users |-> u] :
        t \in TopicLists(maxTopics), u \in UserLists(maxUsers)}

\* for _, u := range items.Users { if u.ID == id { userName = u.Name; break } }
RECURSIVE ScanUsers(_, _, _)
ScanUsers(users, k, id) ==
    IF k > Len(users) THEN EmptyString
    ELSE IF users[k].ID = id THEN users[k].Name
    ELSE ScanUsers(users, k + 1, id)

\* for _, subcat := range cat.SubcategoryList { if match { forumName = ...; break } }
RECURSIVE ScanSubs(_, _, _, _)
ScanSubs(subs, j, id, forumName) ==
    IF j > Len(subs) THEN forumName
    ELSE IF subs[j].ID = id THEN subs[j].Name
    ELSE ScanSubs(subs, j + 1, id, forumName)

\* for _, cat := range cats { if cat.ID == id { forumName = cat.Name; break }
\*                            <the loop over cat.SubcategoryList> }
\* The inner break leaves only the inner loop: the next category is scanned.
RECURSIVE ScanCats(_, _, _, _)
ScanCats(cs, k, id, forumName) ==
    IF k > Len(cs) THEN forumName
    ELSE IF cs[k].ID = id THEN cs[k].Name
    ELSE ScanCats(cs, k + 1, id, ScanSubs(cs[k].SubcategoryList, 1, id, forumName))

\* The post.Post built for one topic (i.Posters[0] exists).
ListedPost(cs, users, i) ==
    [ID |-> Itoa(i.ID),
     Author |-> [ID |-> Itoa(i.Posters[1]), Name |-> ScanUsers(users, 1, i.Posters[1])],
     Forum |-> [ID |-> Itoa(i.CategoryID), Name |-> ScanCats(cs, 1, i.CategoryID, EmptyString)]]

\* ListPosts: both fetches, then the loop over the topics; i.Posters[0] on a
\* topic without posters is an index out of range (a runtime panic).
ListPostsOutcome(c, it) ==
    IF c.err THEN [result |-> "categoriesErr", models |-> <<>>]
    ELSE IF it.err THEN [result |-> "topicsErr", models |-> <<>>]
    ELSE IF \E k \in 1..Len(it.topics) : Len(it.topics[k].Posters) = 0
    THEN [result |-> "panic", models |-> <<>>]
    ELSE [result |-> "nil",
          models |-> [k \in 1..Len(it.topics) |-> ListedPost(c.list, it.users, it.topics[k])]]

InitList ==
    /\ cats = [err |-> TRUE, list |-> <<>>]
    /\ items = [err |-> TRUE, topics |-> <<>>, users |-> <<>>]
    /\ lsResult = "none"
    /\ models = <<>>

\* One call of ListPosts; c and it are what the two fetches answer.
ListPosts ==
    /\ lsResult = "none"
    /\ \E c \in CatsOutcomes(MaxCats), it \in ItemsOutcomes(MaxTopics, MaxUsers) :
        /\ cats' = c
        /\ items' = it
        /\ lsResult' = ListPostsOutcome(c, it).result
        /\ models' = ListPostsOutcome(c, it).models

\* The forum name the category tree gives an id: the first top-level category
\* with that id; failing that, the first subcategory with that id, taking the
\* categories in order; failing that, the empty name.
DirectMatches(cs, id) == {k \in 1..Len(cs) : cs[k].ID = id}
SubMatches(cs, id) ==
    {kj \in (1..Len(cs)) \X (1..MaxSubs + 1) :
        /\ kj[2] <= Len(cs[kj[1]].SubcategoryList)
        /\ cs[kj[1]].SubcategoryList[kj[2]].ID = id}
Min(S) == CHOOSE x \in S : \A y \in S : x <= y
FirstSubMatch(cs, id) ==
    LET k == Min({kj[1] : kj \in SubMatches(cs, id)})
        j == Min({kj[2] : kj \in {m \in SubMatches(cs, id) : m[1] = k}})
    IN cs[k].SubcategoryList[j].Name
FirstMatchName(cs, id) ==
    IF DirectMatches(cs, id) # {} THEN cs[Min(DirectMatches(cs, id))].Name
    ELSE IF SubMatches(cs, id) # {} THEN FirstSubMatch(cs, id)
    ELSE EmptyString

\* C6: the forum name of every listed post is that of the first match, direct
\* categories first, then the subcategories of each category in order; an id
\* that matches nothing gives the empty name and no error.
C6_ForumNameIsFirstMatch ==
    (~cats.err /\ ~items.err /\ \A k \in 1..Len(items.topics) : Len(items.topics[k].Posters) > 0)
        => /\ lsResult = "nil"
           /\ Len(models) = Len(items.topics)
           /\ \A k \in 1..Len(models) :
                models[k].Forum.Name = FirstMatchName(cats.list, items.topics[k].CategoryID)

\* C10: author resolution never fails: every topic of a fetched listing,
\* whatever its posters, gives a Post whose Author.Name is the name of the
\* first directory user with the first poster's id, or the empty name.
C10_AuthorResolutionNeverFails ==
    (lsResult # "none" /\ ~cats.err /\ ~items.err)
        => /\ lsResult = "nil"
           /\ Len(models) = Len(items.topics)
           /\ \A k \in 1..Len(models) :
                LET posters == items.topics[k].Posters
                    matches == {u \in 1..Len(items.users) :
                                   Len(posters) > 0 /\ items.users[u].ID = posters[1]}
                IN models[k].Author.Name =
                      IF matches = {} THEN EmptyString ELSE items.users[Min(matches)].Name

(***************************************************************************)
(*                          System.LoadPost                                *)
(***************************************************************************)
MaxPosts == 2
MaxCalls == 2

\* Cooked HTML is a sequence of tokens; the converter drops the tags.
Tags == {"<p>", "</p>"}
Unconvertible == <<"<p", "text">>
CookedValues == {<<"<p>", "text", "</p>">>, Unconvertible}
IsText(t) == t \notin Tags

\* md.NewConverter("", true, nil).ConvertString
ConvertString(cooked) ==
    IF cooked = Unconvertible THEN [err |-> TRUE, md |-> <<>>]
    ELSE [err |-> FALSE, md |-> SelectSeq(cooked, IsText)]

\* dateparse.ParseAny, and time.Now() in its place when it fails
Now == "now"
ParseAny(s) == [err |-> s = "garbage", t |-> s]
TimeOrNow(s) == IF ParseAny(s).err THEN Now ELSE ParseAny(s).t

StreamPosts == [ID : {1, 2}, Cooked : CookedValues,
                CreatedAt : {"2022-12-31T10:00:00Z", "garbage"},
                UserID : {3}, Name : {<<"a">>}]

\* What Topics.Show answers: an error or the topic's post stream.
ShowErrors == {"transportErr", "RequestError"}
ShowOutcomes(maxPosts) ==
    {[err |-> e, posts |-> <<>>] : e \in ShowErrors} \cup
    {[err |-> "none", posts |-> ps] : ps \in SeqsUpTo(StreamPosts, maxPosts)}

CookedMd(i) == IF ConvertString(i.Cooked).err THEN i.Cooked ELSE ConvertString(i.Cooked).md

ReplyOf(post, i) ==
    [ID |-> Itoa(i.ID), InReplyTo |-> post.ID, Body |-> CookedMd(i),
     CreatedAt |-> TimeOrNow(i.CreatedAt),
     Author |-> [ID |-> Itoa(i.UserID), Name |-> i.Name]]

\* for idx, i := range item.PostStream.Posts { ... }
RECURSIVE MapStream(_, _, _)
MapStream(post, posts, idx) ==
    IF idx > Len(posts) THEN post
    ELSE IF idx = 1
    THEN MapStream([post EXCEPT !.Body = CookedMd(posts[idx])], posts, idx + 1)
    ELSE MapStream([post EXCEPT !.Replies = Append(@, ReplyOf(post, posts[idx]))],
                   posts, idx + 1)

\* A post as ListPosts hands it out: no body, no replies.
ListedP ==
    [ID |-> <<"7">>, Subject |-> <<"s">>, Body |-> EmptyString, Replies |-> <<>>,
     Author |-> [ID |-> <<"1">>, Name |-> <<"u", "1">>],
     Forum |-> [ID |-> <<"1", "1">>, Name |-> <<"c", "1">>]]

NoStream == [err |-> "none", posts |-> <<>>]

InitLoadPost ==
    /\ p = ListedP
    /\ lpResult = "none"
    /\ lastStream = NoStream
    /\ lpCalls = 0

\* LoadPost(p); out is what Topics.Show answers.
LoadPost ==
    /\ lpCalls < MaxCalls
    /\ \E out \in ShowOutcomes(MaxPosts) :
        /\ lastStream' = out
        /\ IF out.err # "none"
           THEN lpResult' = out.err /\ p' = p
           ELSE lpResult' = "nil" /\ p' = MapStream(p, out.posts, 1)
    /\ lpCalls' = lpCalls + 1

\* C7: after a successful LoadPost on a stream of n >= 1 posts, Body is the
\* converted first post, Replies holds exactly the n-1 later posts in stream
\* order whatever it held before, and Forum, Author and Subject are untouched.
C7_ThreadReconstruction ==
    (lpResult = "nil" /\ Len(lastStream.posts) >= 1)
        => LET posts == lastStream.posts
           IN /\ p.Body = CookedMd(posts[1])
              /\ Len(p.Replies) = Len(posts) - 1
              /\ \A k \in 1..Len(p.Replies) :
                    k + 1 <= Len(posts) => p.Replies[k] = ReplyOf(p, posts[k + 1])
              /\ p.Forum = ListedP.Forum
              /\ p.Author = ListedP.Author
              /\ p.Subject = ListedP.Subject

(***************************************************************************)
(*               System.CreatePost and System.CreateReply                  *)
(***************************************************************************)
ReplyInputs == [ID : Strings, InReplyTo : Strings, Body : {<<"a">>}]
PostInputs == [ID : {EmptyString}, ForumID : Strings, Subject : {<<"s">>}, Body : {<<"a">>}]
\* What Posts.Create answers: an error, or the created post's ID.
CreateOutcomes == {[err |-> TRUE, ID |-> 0], [err |-> FALSE, ID |-> 42]}

\* api.CreatePostModel; a field left out holds Go's zero value.
CreatePostModel(title, raw, category, topicID, replyTo) ==
    [Title |-> title, Raw |-> raw, Category |-> category,
     TopicID |-> topicID, ReplyToPostNumber |-> replyTo]
NoReq == [none |-> TRUE]

\* System.CreatePost
CreatePostOutcome(post, out) ==
    IF Atoi(post.ForumID).err THEN [result |-> "atoiErr", req |-> NoReq, obj |-> post]
    ELSE LET ap == CreatePostModel(post.Subject, post.Body, Atoi(post.ForumID).val, 0, 0)
         IN IF out.err THEN [result |-> "createErr", req |-> ap, obj |-> post]
            ELSE [result |-> "nil", req |-> ap, obj |-> [post EXCEPT !.ID = Itoa(out.ID)]]

\* System.CreateReply
CreateReplyOutcome(rep, out) ==
    IF Atoi(rep.ID).err THEN [result |-> "atoiErr", req |-> NoReq, obj |-> rep]
    ELSE IF rep.InReplyTo # EmptyString /\ Atoi(rep.InReplyTo).err
    THEN [result |-> "atoiErr", req |-> NoReq, obj |-> rep]
    ELSE LET ID == Atoi(rep.ID).val
             inReplyTo == IF rep.InReplyTo # EmptyString THEN Atoi(rep.InReplyTo).val
                          ELSE 0 - 1
             ap == IF inReplyTo = 0 - 1
                   THEN CreatePostModel(EmptyString, rep.Body, 0, ID, 0)
                   ELSE CreatePostModel(EmptyString, rep.Body, 0, inReplyTo, ID)
         IN IF out.err THEN [result |-> "createErr", req |-> ap, obj |-> rep]
            ELSE [result |-> "nil", req |-> ap, obj |-> [rep EXCEPT !.ID = Itoa(out.ID)]]

NoReply == [ID |-> EmptyString, InReplyTo |-> EmptyString, Body |-> <<"a">>]
NoPost == [ID |-> EmptyString, ForumID |-> EmptyString, Subject |-> <<"s">>, Body |-> <<"a">>]

InitCreate ==
    /\ r = NoReply
    /\ np = NoPost
    /\ crInput = NoReply
    /\ lastReq = NoReq
    /\ crResult = "none"
    /\ crOp = "none"

CreatePost ==
    /\ crOp = "none"
    /\ \E post \in PostInputs, out \in CreateOutcomes :
        /\ np' = CreatePostOutcome(post, out).obj
        /\ lastReq' = CreatePostOutcome(post, out).req
        /\ crResult' = CreatePostOutcome(post, out).result
    /\ crOp' = "CreatePost"
    /\ UNCHANGED <<r, crInput>>

CreateReply ==
    /\ crOp = "none"
    /\ \E rep \in ReplyInputs, out \in CreateOutcomes :
        /\ crInput' = rep
        /\ r' = CreateReplyOutcome(rep, out).obj
        /\ lastReq' = CreateReplyOutcome(rep, out).req
        /\ crResult' = CreateReplyOutcome(rep, out).result
    /\ crOp' = "CreateReply"
    /\ UNCHANGED np

\* C8: for a reply whose ID parses as i: an empty InReplyTo gives a request
\* with TopicID = i and no ReplyToPostNumber; an InReplyTo that parses as any
\* integer t gives TopicID = t and ReplyToPostNumber = i.
C8_CreateReplyMapping ==
    (crOp = "CreateReply" /\ ~Atoi(crInput.ID).err)
        => LET i == Atoi(crInput.ID).val
           IN /\ crInput.InReplyTo = EmptyString
                    => lastReq.TopicID = i /\ lastReq.ReplyToPostNumber = 0
              /\ (crInput.InReplyTo # EmptyString /\ ~Atoi(crInput.InReplyTo).err)
                    => /\ lastReq.TopicID = Atoi(crInput.InReplyTo).val
                       /\ lastReq.ReplyToPostNumber = i

(***************************************************************************)
(*                           Specifications                                *)
(***************************************************************************)
InitAll == InitDo /\ InitLoad /\ InitList /\ InitLoadPost /\ InitCreate

NextDo ==
    \/ DoCall /\ UNCHANGED <<loadVars, listVars, lpVars, crVars>>
    \/ CancelCtx /\ UNCHANGED <<loadVars, listVars, lpVars, crVars>>
    \/ HTTPAttempt /\ UNCHANGED <<loadVars, listVars, lpVars, crVars>>
    \/ BackoffCancelled /\ UNCHANGED <<loadVars, listVars, lpVars, crVars>>
SpecDo == InitAll /\ [][NextDo]_vars

NextLoad ==
    \/ NewSystem /\ UNCHANGED <<doVars, listVars, lpVars, crVars>>
    \/ SetConfig /\ UNCHANGED <<doVars, listVars, lpVars, crVars>>
    \/ Load /\ UNCHANGED <<doVars, listVars, lpVars, crVars>>
SpecLoad == InitAll /\ [][NextLoad]_vars

NextList == ListPosts /\ UNCHANGED <<doVars, loadVars, lpVars, crVars>>
SpecList == InitAll /\ [][NextList]_vars

NextLoadPost == LoadPost /\ UNCHANGED <<doVars, loadVars, listVars, crVars>>
SpecLoadPost == InitAll /\ [][NextLoadPost]_vars

NextCreate ==
    \/ CreatePost /\ UNCHANGED <<doVars, loadVars, listVars, lpVars>>
    \/ CreateReply /\ UNCHANGED <<doVars, loadVars, listVars, lpVars>>
SpecCreate == InitAll /\ [][NextCreate]_vars

====
